---- MODULE Spec2Model ----
(***************************************************************************)
(* Flask-AppBuilder, flask_appbuilder/views.py: the request handlers of a  *)
(* GeneralView (list, show, add, edit, delete) and of a SimpleFormView     *)
(* (this_form_get, this_form_post), with the query-string parsing they     *)
(* share (_get_page_args, _get_order_args, _get_filter_args).              *)
(*                                                                         *)
(* Text (parameter names, parameter values, view names, column names) is   *)
(* a tuple of one-character strings, so that the regular expressions of    *)
(* the source are modelled by what they match.  A Python value that may be *)
(* None is a tuple of length at most one: <<>> is None, <<v>> is v.        *)
(*                                                                         *)
(* Spec handles requests one at a time, each handler in one step.          *)
(* SpecConc handles two requests in two threads on the same view objects,  *)
(* one step per access to an object the threads share.                     *)
(***************************************************************************)
EXTENDS Integers, Sequences, FiniteSets, TLC

\* ------------------------------------------------------------------ bounds

\* Primary keys of the stored records are 1..MaxPk.
MaxPk == 2

\* ------------------------------------------------------------------- text

None == <<>>
Some(v) == <<v>>

Digits == {"0", "1", "2", "3", "4", "5", "6", "7", "8", "9"}

DigitVal(c) ==
  CASE c = "0" -> 0 [] c = "1" -> 1 [] c = "2" -> 2 [] c = "3" -> 3
    [] c = "4" -> 4 [] c = "5" -> 5 [] c = "6" -> 6 [] c = "7" -> 7
    [] c = "8" -> 8 [] c = "9" -> 9

\* int(s) of a decimal numeral.
RECURSIVE IntOf(_)
IntOf(s) ==
  IF s = <<>> THEN 0
  ELSE 10 * IntOf(SubSeq(s, 1, Len(s) - 1)) + DigitVal(s[Len(s)])

Min(S) == CHOOSE x \in S : \A y \in S : x <= y

\* The literal lit stands in s at position i.
LitAt(lit, s, i) ==
  /\ i + Len(lit) - 1 <= Len(s)
  /\ SubSeq(s, i, i + Len(lit) - 1) = lit

RestFrom(s, i) == SubSeq(s, i, Len(s))

\* re.findall(lit + '(.*)', s): the search is not anchored, so the first
\* place where lit stands in s matches and the group takes the rest of s;
\* nothing is left for a second match.  The result is the list of groups.
ReFindallRest(lit, s) ==
  LET at == {i \in 1..Len(s) : LitAt(lit, s, i)}
  IN  IF at = {} THEN <<>> ELSE <<RestFrom(s, Min(at) + Len(lit))>>

\* re.findall(lit + '(\d)_(.*)', s): one decimal digit, then '_', then the
\* rest.  The result is the list of (digit, rest) pairs.
ReFindallDigitRest(lit, s) ==
  LET n  == Len(lit)
      at == {i \in 1..Len(s) :
               /\ LitAt(lit, s, i)
               /\ i + n + 1 <= Len(s)
               /\ s[i + n] \in Digits
               /\ s[i + n + 1] = "_"}
  IN  IF at = {} THEN <<>>
      ELSE <<<< <<s[Min(at) + n]>>, RestFrom(s, Min(at) + n + 2) >>>>

PAGE_ == <<"p", "a", "g", "e", "_">>
OC_   == <<"_", "o", "c", "_">>
OD_   == <<"_", "o", "d", "_">>
FLT_  == <<"_", "f", "l", "t", "_">>
NEXT  == <<"n", "e", "x", "t">>

\* ---------------------------------------------------------- request.args

\* request.args is a sequence of <<name, value>> pairs with distinct names,
\* in the order in which `for arg in request.args` meets them.
ArgNames(args) == {args[i][1] : i \in 1..Len(args)}

\* request.args.get(name)
ArgsGet(args, name) ==
  LET at == {i \in 1..Len(args) : args[i][1] = name}
  IN  IF at = {} THEN None ELSE Some(args[Min(at)][2])

\* d[k] = v on a dict, a function from its keys.
Put(d, k, v) == [x \in (DOMAIN d) \cup {k} |-> IF x = k THEN v ELSE d[x]]

\* d.get(k)
DictGet(d, k) == IF k \in DOMAIN d THEN Some(d[k]) ELSE None

EmptyDict == [x \in {} |-> 0]

RECURSIVE PageArgsLoop(_, _, _)
PageArgsLoop(args, i, pages) ==
  IF i > Len(args) THEN pages
  ELSE LET arg      == args[i][1]
           re_match == ReFindallRest(PAGE_, arg)
       IN  PageArgsLoop(args, i + 1,
             IF re_match # <<>>
             THEN Put(pages, re_match[1], IntOf(ArgsGet(args, arg)[1]))
             ELSE pages)

_get_page_args(args) == PageArgsLoop(args, 1, EmptyDict)

RECURSIVE OrderArgsLoop(_, _, _)
OrderArgsLoop(args, i, orders) ==
  IF i > Len(args) THEN orders
  ELSE LET arg      == args[i][1]
           re_match == ReFindallRest(OC_, arg)
       IN  OrderArgsLoop(args, i + 1,
             IF re_match # <<>>
             THEN Put(orders, re_match[1],
                      <<ArgsGet(args, arg)[1], ArgsGet(args, OD_ \o re_match[1])>>)
             ELSE orders)

_get_order_args(args) == OrderArgsLoop(args, 1, EmptyDict)

\* ------------------------------------------------- models.filters.Filters

\* A Filters object is the list of its filters, each a column, the index of
\* the filter type on that column, and the value to compare with.
clear_filters(flt) == <<>>

add_filter_index(flt, col, idx, value) ==
  Append(flt, [col |-> col, idx |-> idx, value |-> value])

\* Columns of the model that are relations to another model.
RelationCols == {<<"d">>}

\* The relation columns that have a filter, in the filters' order.
get_relation_cols(flt) ==
  SelectSeq([i \in 1..Len(flt) |-> flt[i].col], LAMBDA c : c \in RelationCols)

\* The value of the first filter on col, None when col has no filter.
get_filter_value(flt, col) ==
  LET at == {i \in 1..Len(flt) : flt[i].col = col}
  IN  IF at = {} THEN None ELSE Some(flt[Min(at)].value)

RECURSIVE FilterArgsLoop(_, _, _)
FilterArgsLoop(args, i, flt) ==
  IF i > Len(args) THEN flt
  ELSE LET arg      == args[i][1]
           re_match == ReFindallDigitRest(FLT_, arg)
       IN  FilterArgsLoop(args, i + 1,
             IF re_match # <<>>
             THEN add_filter_index(flt, re_match[1][2], IntOf(re_match[1][1]),
                                   ArgsGet(args, arg)[1])
             ELSE flt)

\* self._filters after _get_filter_args, from self._filters before it.
_get_filter_args(flt, args) == FilterArgsLoop(args, 1, clear_filters(flt))

\* ------------------------------------------------------- models.datamodel

Pks == 1..MaxPk

\* What a form can carry for the one data column of the model.
Data == {"a", "b"}

\* An item is an object of the model: ref is the object's identity (the
\* primary key it was loaded under, 0 for an object made by this request),
\* data its column, rel the relations set on it.
NewItem == [ref |-> 0, data |-> "", rel |-> {}]

\* datamodel.get(pk): the stored object, None when there is none.
datamodel_get(recs, pk) ==
  IF pk \in DOMAIN recs
  THEN Some([ref |-> pk, data |-> recs[pk].data, rel |-> recs[pk].rel])
  ELSE None

\* datamodel.add(item): the item is stored under the next free primary key.
datamodel_add(recs, item) ==
  LET pk == Min(Pks \ DOMAIN recs)
  IN  [p \in (DOMAIN recs) \cup {pk} |->
         IF p = pk THEN [data |-> item[1].data, rel |-> item[1].rel] ELSE recs[p]]

\* datamodel.edit(item): the stored object takes the item's values.
datamodel_edit(recs, item) ==
  IF item # None /\ item[1].ref \in DOMAIN recs
  THEN [recs EXCEPT ![item[1].ref] = [data |-> item[1].data, rel |-> item[1].rel]]
  ELSE recs

\* datamodel.delete(item): the stored object is removed.
datamodel_delete(recs, item) ==
  IF item # None
  THEN [p \in (DOMAIN recs) \ {item[1].ref} |-> recs[p]]
  ELSE recs

\* datamodel.query(filters, order_column, order_direction, page, page_size):
\* (count, lst), here the keys of the stored objects; what the filters, the
\* order and the page select of them is the ORM's.
datamodel_query(recs) == [count |-> Cardinality(DOMAIN recs), pks |-> DOMAIN recs]

\* form.populate_obj(item)
populate_obj(item, form) ==
  IF item = None THEN None ELSE Some([item[1] EXCEPT !.data = form])

\* for filter_key in exclude_cols: setattr(item, filter_key, rel_obj)
RECURSIVE SetRelations(_, _, _, _)
SetRelations(item, exclude_cols, i, flt) ==
  IF i > Len(exclude_cols) \/ item = None THEN item
  ELSE LET filter_key == exclude_cols[i]
           rel_obj    == <<filter_key, get_filter_value(flt, filter_key)>>
       IN  SetRelations(
             Some([item[1] EXCEPT !.rel =
                     {x \in @ : x[1] # filter_key} \cup {rel_obj}]),
             exclude_cols, i + 1, flt)

\* ------------------------------------------------------------ the views

\* self.__class__.__name__ of the GeneralView under test and of the one view
\* in its related_views.
ViewName    == <<"V">>
RelatedName == <<"W">>
related_views == <<RelatedName>>

page_size == 30

\* The SimpleFormView under test and the app's index view, by class name.
FormName  == <<"F">>
IndexName == <<"I", "n", "d", "e", "x", "V", "i", "e", "w">>

\* The views as _get_redirect reads them: create_blueprint has set endpoint
\* to the class name; default_view is BaseView's 'list', IndexView's 'index'.
GeneralView == [endpoint |-> ViewName, default_view |-> "list"]
FormView    == [endpoint |-> FormName, default_view |-> "list"]
indexview   == [endpoint |-> IndexName, default_view |-> "index"]

\* The endpoints of the app's URL map: one per exposed method of each view.
Endpoints ==
  {<<ViewName, f>> : f \in {"list", "show", "add", "edit", "delete", "download"}}
    \cup {<<FormName, f>> : f \in {"this_form_get", "this_form_post"}}
    \cup {<<IndexName, "index">>}

\* url_for('%s.%s' % (endpoint, view_function)): the URL, None when Flask
\* raises BuildError because the URL map has no such endpoint.
url_for(endpoint, view_function) ==
  IF <<endpoint, view_function>> \in Endpoints
  THEN Some(<<"url_for">> \o endpoint \o <<".", view_function>>)
  ELSE None

\* ------------------------------------------------------- the construction

\* A method of a view carries at most MaxExpose expose decorations, and a
\* page of a view at most MaxFieldsets fieldsets.
MaxExpose == 2
MaxFieldsets == 2

\* The datamodel's get_columns_list() and get_order_columns_list().
get_columns_list == << <<"c">>, <<"d">> >>
get_order_columns_list == << <<"d">> >>

\* str.lower(), on the letters of a class name.
UpperCase == <<"A", "B", "C", "D", "E", "F", "G", "H", "I", "J", "K", "L", "M",
               "N", "O", "P", "Q", "R", "S", "T", "U", "V", "W", "X", "Y", "Z">>
LowerCase == <<"a", "b", "c", "d", "e", "f", "g", "h", "i", "j", "k", "l", "m",
               "n", "o", "p", "q", "r", "s", "t", "u", "v", "w", "x", "y", "z">>
lower(s) ==
  [i \in 1..Len(s) |->
     IF \E k \in 1..26 : UpperCase[k] = s[i]
     THEN LowerCase[CHOOSE k \in 1..26 : UpperCase[k] = s[i]]
     ELSE s[i]]

\* A function as the class body defines it: no _urls and no _action.
PlainFunction == [_urls |-> None, _action |-> None]

\* expose(url, methods)(f), lines 21-25
expose(f, url, methods) ==
  LET f1 == IF f._urls = None THEN [f EXCEPT !._urls = Some(<<>>)] ELSE f
  IN  [f1 EXCEPT !._urls = Some(Append(f1._urls[1], <<url, methods>>))]

\* The function after the first n of the decorations ds.
RECURSIVE Decorated(_, _)
Decorated(ds, n) ==
  IF n = 0 THEN PlainFunction
  ELSE expose(Decorated(ds, n - 1), ds[n][1], ds[n][2])

\* dir(self), as far as it names functions of the class body: sorted.
M_add  == <<"a", "d", "d">>
M_list == <<"l", "i", "s", "t">>
M_muldelete == <<"m", "u", "l", "d", "e", "l", "e", "t", "e">>
dir == <<M_add, M_list, M_muldelete>>
CAN_ == <<"c", "a", "n", "_">>

\* The decorations a class body puts on its list method, innermost first.
ListDecorations ==
  << <<"/list/", {"GET"}>>, <<"/", {"GET"}>>, <<"/list/", {"GET", "POST"}>> >>

\* The fieldsets a class body declares for a page, and the columns list.
SomeFieldsets ==
  << [title |-> "A", fields |-> << <<"d">>, <<"c">> >>],
     [title |-> "B", fields |-> << <<"e">> >>],
     [title |-> "C", fields |-> << <<"c">> >>] >>
FieldsetsLists == {SubSeq(SomeFieldsets, 1, n) : n \in 0..MaxFieldsets}
ColumnsLists == {None, Some(<<>>), Some(<< <<"e">>, <<"c">> >>)}

\* A class body: the class attributes of a view class (the defaults of
\* BaseView and BaseCRUDView, where the body does not override them), the
\* expose decorations it puts on each of its methods, innermost first, and the
\* _action the action decorator has set on them.
ClassBodies ==
  [ name             : {<<"V">>, <<"M", "y", "V">>},
    endpoint         : {None, Some(<<"E">>)},
    route_base       : {None, Some(<<"/", "r">>)},
    base_permissions : {None, Some(<< <<"c", "a", "n", "_", "x">> >>)},
    actions          : {None},
    exposes          : {[m \in {M_add, M_list, M_muldelete} |->
                           CASE m = M_add  -> a
                             [] m = M_list -> l
                             [] OTHER      -> <<>>] :
                          a \in {<<>>, << <<"/add", {"GET", "POST"}>> >>},
                          l \in {SubSeq(ListDecorations, 1, n) : n \in 0..MaxExpose}},
    action_of        : {[m \in {M_add, M_list, M_muldelete} |->
                           IF m = M_muldelete THEN d ELSE None] :
                          d \in {None, Some(<<M_muldelete, "Delete all">>)}},
    methods          : {None},
    related_views    : {None},
    list_columns     : {None},
    order_columns    : {None, Some(<< <<"c">> >>)},
    show_fieldsets   : FieldsetsLists,
    show_columns     : ColumnsLists,
    add_fieldsets    : FieldsetsLists,
    add_columns      : {None, Some(<< <<"c">> >>)},
    edit_fieldsets   : FieldsetsLists,
    edit_columns     : {None, Some(<< <<"d">> >>)},
    baseapp          : {None},
    static_folder    : {Some("static")},
    blueprint        : {None} ]

\* The classes, their methods decorated as their bodies say.
ViewClasses ==
  {[b EXCEPT !.methods =
      [m \in DOMAIN b.exposes |->
         [Decorated(b.exposes[m], Len(b.exposes[m])) EXCEPT !._action = b.action_of[m]]]] :
     b \in ClassBodies}

\* What a constructor call comes to: the object as it leaves it, and whether
\* it returned (ok) or raised.
Returned(self) == [ok |-> TRUE, self |-> self]
Raised(self)   == [ok |-> FALSE, self |-> self]

\* BaseView.__init__, lines 59-63: the list comprehension over dir(self).
RECURSIVE CanLoop(_, _, _)
CanLoop(self, i, perms) ==
  IF i > Len(dir) THEN perms
  ELSE CanLoop(self, i + 1,
               IF self.methods[dir[i]]._urls # None
               THEN Append(perms, CAN_ \o dir[i])
               ELSE perms)

\* BaseView.__init__, lines 65-69: at the first attribute that has _action,
\* line 67 reads attr_name._action, and attr_name is a str: AttributeError.
RECURSIVE ActionLoop(_, _)
ActionLoop(self, i) ==
  IF i > Len(dir) THEN Returned(self)
  ELSE IF self.methods[dir[i]]._action # None
       THEN Raised(self)
       ELSE ActionLoop(self, i + 1)

\* BaseView.__init__
BaseView__init__(self) ==
  IF self.base_permissions = None
  THEN LET perms == CanLoop(self, 1, <<>>)
           acts  == IF self.actions = None \/ self.actions = Some(<<>>)
                    THEN Some(<<>>) ELSE self.actions
       IN  ActionLoop([self EXCEPT !.base_permissions = Some(perms), !.actions = acts], 1)
  ELSE Returned(self)

\* The loops of lines 477-478, 484-485 and 491-492.
RECURSIVE FieldsLoop(_, _, _)
FieldsLoop(fieldsets, i, columns) ==
  IF i > Len(fieldsets) THEN columns
  ELSE FieldsLoop(fieldsets, i + 1, columns \o fieldsets[i].fields)

\* Declared columns win over the fieldsets.
ColumnsOf_declared(fieldsets, columns, list_cols) ==
  IF columns # None /\ columns # Some(<<>>) THEN columns
  ELSE IF fieldsets # <<>> THEN Some(FieldsLoop(fieldsets, 1, <<>>))
  ELSE Some(list_cols)

\* BaseCRUDView._init_vars, lines 475-481 (show), 482-488 (add) and 489-495
\* (edit): the columns list of the page.
ColumnsOf(fieldsets, columns, list_cols) ==
  IF fieldsets # <<>>
  THEN Some(FieldsLoop(fieldsets, 1, <<>>))
  ELSE IF columns = None \/ columns = Some(<<>>) THEN Some(list_cols) ELSE columns

\* BaseCRUDView._init_vars.  Line 474 assigns the local name
\* self_order_columns: self.order_columns stays as it was.
_init_vars(self) ==
  LET order_cols == get_order_columns_list
      list_cols  == get_columns_list
  IN  [self EXCEPT
         !.related_views = IF @ = None THEN Some(<<>>) ELSE @,
         !.list_columns  = IF @ = None \/ @ = Some(<<>>) THEN Some(<<order_cols[1]>>) ELSE @,
         !.show_columns  = ColumnsOf(self.show_fieldsets, @, list_cols),
         !.add_columns   = ColumnsOf(self.add_fieldsets, @, list_cols),
         !.edit_columns  = ColumnsOf(self.edit_fieldsets, @, list_cols)]

\* BaseCRUDView.__init__: BaseView.__init__ through BaseModelView.__init__,
\* then _init_vars.
BaseCRUDView__init__(self) ==
  LET base == BaseView__init__(self)
  IN  IF base.ok THEN Returned(_init_vars(base.self)) ELSE base

\* BaseView._register_urls, lines 114-118: one add_url_rule call for each
\* (url, methods) of attr._urls; only the first of them here.
RECURSIVE UrlsLoop_first(_, _, _, _)
UrlsLoop_first(attr_name, urls, j, rules) ==
  IF j > Len(urls) \/ j > 1 THEN rules
  ELSE UrlsLoop_first(attr_name, urls, j + 1,
         Append(rules, [rule |-> urls[j][1], endpoint |-> attr_name,
                        methods |-> urls[j][2]]))

\* BaseView._register_urls, lines 114-118: one add_url_rule call for each
\* (url, methods) of attr._urls.
RECURSIVE UrlsLoop(_, _, _, _)
UrlsLoop(attr_name, urls, j, rules) ==
  IF j > Len(urls) THEN rules
  ELSE UrlsLoop(attr_name, urls, j + 1,
         Append(rules, [rule |-> urls[j][1], endpoint |-> attr_name,
                        methods |-> urls[j][2]]))

\* BaseView._register_urls, lines 110-113: the attributes that have _urls.
RECURSIVE RegisterLoop(_, _, _)
RegisterLoop(self, i, rules) ==
  IF i > Len(dir) THEN rules
  ELSE LET attr == self.methods[dir[i]]
       IN  RegisterLoop(self, i + 1,
             IF attr._urls # None THEN UrlsLoop(dir[i], attr._urls[1], 1, rules)
             ELSE rules)

\* BaseView._register_urls
_register_urls(self) ==
  [self EXCEPT !.blueprint = Some([@[1] EXCEPT !.rules = RegisterLoop(self, 1, @)])]

\* Blueprint(name, __name__, url_prefix = ..., template_folder = ...,
\* static_folder = ...): a blueprint with no rule yet.
Blueprint(name, url_prefix, static_folder) ==
  [name |-> name, url_prefix |-> url_prefix, static_folder |-> static_folder,
   rules |-> <<>>]

\* BaseView.create_blueprint
create_blueprint(self, baseapp, static_folder) ==
  LET endpoint   == IF self.endpoint = None \/ self.endpoint = Some(<<>>)
                    THEN Some(self.name) ELSE self.endpoint
      route_base == IF self.route_base = None
                    THEN Some(<<"/">> \o lower(self.name)) ELSE self.route_base
  IN  _register_urls(
        [self EXCEPT !.baseapp = Some(baseapp),
                     !.endpoint = endpoint,
                     !.route_base = route_base,
                     !.static_folder = static_folder,
                     !.blueprint =
                        IF static_folder = None \/ static_folder = Some("")
                        THEN Some(Blueprint(endpoint[1], route_base[1], None))
                        ELSE Some(Blueprint(endpoint[1], route_base[1],
                                            static_folder))])

\* ----------------------------------------------------------- the requests

X  == <<"x">>
P(name, value) == <<name, value>>

\* The query strings of the requests.
QueryStrings ==
  { <<>>,
    << P(PAGE_ \o ViewName, <<"2">>) >>,
    << P(X \o PAGE_ \o ViewName, <<"1">>) >>,
    << P(PAGE_ \o ViewName, <<"2">>), P(X \o PAGE_ \o ViewName, <<"1">>) >>,
    << P(PAGE_ \o RelatedName, <<"1", "0">>) >>,
    << P(PAGE_, <<"1">>) >>,
    << P(OC_ \o ViewName, <<"c">>), P(OD_ \o ViewName, <<"a", "s", "c">>) >>,
    << P(OC_ \o ViewName, <<"c">>) >>,
    << P(X \o OC_ \o ViewName, <<"c">>) >>,
    << P(OC_ \o RelatedName, <<"d">>), P(OD_ \o RelatedName, <<>>) >>,
    << P(FLT_ \o <<"0", "_", "c">>, <<"1">>) >>,
    << P(FLT_ \o <<"1", "2", "_", "c">>, <<"1">>) >>,
    << P(X \o FLT_ \o <<"1", "_", "c">>, <<"1">>) >>,
    << P(FLT_ \o <<"1", "_", "d">>, <<"2">>) >>,
    << P(FLT_ \o <<"1", "_", "d">>, <<"2">>), P(FLT_ \o <<"0", "_", "c">>, <<"1">>) >>,
    << P(NEXT, <<"/", "h">>) >>,
    << P(NEXT, <<>>) >>,
    << P(<<"q">>, <<"1">>) >> }

\* A request: the handler its URL routes to, its method, the pk of its URL,
\* its query string, the data its form carries and whether that form
\* validates.
Request(h, m, pk, args, form, valid) ==
  [handler |-> h, method |-> m, pk |-> pk, args |-> args, form |-> form, valid |-> valid]

NoRequest == Request("", "", 0, <<>>, "", FALSE)

Posts(h, pks) ==
  {Request(h, "POST", pk, args, form, valid) :
     pk \in pks, args \in QueryStrings, form \in Data, valid \in BOOLEAN}

Gets(h, pks) ==
  {Request(h, "GET", pk, args, "", FALSE) : pk \in pks, args \in QueryStrings}

ListRequests   == Gets("list", {0})
ShowRequests   == Gets("show", Pks)
AddRequests    == Gets("add", {0}) \cup Posts("add", {0})
EditRequests   == Gets("edit", Pks) \cup Posts("edit", Pks)
DeleteRequests == Gets("delete", Pks)
FormGetRequests  == Gets("this_form_get", {0})
FormPostRequests == Posts("this_form_post", {0})

\* ------------------------------------------------------------- the state

VARIABLES
  records,   \* the datamodel's stored objects: pk -> [data, rel]
  filters,   \* self._filters of the GeneralView
  phase,     \* "idle": no request in hand; "done": a request was answered
  req,       \* the request answered
  recs0,     \* the stored objects when that request came in
  calls,     \* the hooks and datamodel writes its handler called, in order
  queries,   \* the datamodel.query calls its handler made, in order
  pages,     \* what _get_page_args returned to its handler (None: not called)
  orders,    \* what _get_order_args returned to its handler (None: not called)
  applied,   \* the filters its handler worked with (None: it reads none)
  resp,      \* the response
  wd,        \* the dicts that are the default of a `widgets = {}` parameter
  tpc,       \* SpecConc: where each thread stands in its handler
  trq,       \* SpecConc: the request each thread handles
  tloc,      \* SpecConc: each thread's local variables
  tout,      \* SpecConc: each thread's response
  lists,     \* SpecConc: the list object each thread made for 'related_lists'
  klass,     \* SpecCtor: the view class, as its class body declares it
  obj,       \* SpecCtor: the object of that class, once __init__ was called
  life       \* SpecCtor: "class", "constructed", "raised" or "registered"

seqVars  == <<phase, req, recs0, calls, queries, pages, orders, applied, resp>>
concVars == <<wd, tpc, trq, tloc, tout, lists>>
ctorVars == <<klass, obj, life>>
vars == <<records, filters, seqVars, concVars, ctorVars>>

Call(op, item) == [op |-> op, item |-> item]

Redirect(to) == [kind |-> "redirect", to |-> to, template |-> "", widgets |-> EmptyDict]
Render(template, widgets) ==
  [kind |-> "render", to |-> <<>>, template |-> template, widgets |-> widgets]
NoResponse == [kind |-> "", to |-> <<>>, template |-> "", widgets |-> EmptyDict]

\* BaseView._get_redirect with the try of line 149 always failing.
_get_redirect_index(self, args) ==
  LET next == ArgsGet(args, NEXT)
  IN  IF next # None /\ next[1] # <<>> THEN next[1]
      ELSE url_for(indexview.endpoint, indexview.default_view)[1]

\* BaseView._get_redirect
_get_redirect(self, args) ==
  LET next == ArgsGet(args, NEXT)
      own  == url_for(self.endpoint, self.default_view)
  IN  IF next # None /\ next[1] # <<>> THEN next[1]
      ELSE IF own # None THEN own[1]
      ELSE url_for(indexview.endpoint, indexview.default_view)[1]

\* ------------------------------------------------------------ the widgets

\* form.refresh(): a form instance bound to the request's data (to the
\* item's, for an edit page asked by GET).
refresh(data) == [data |-> data, bound |-> TRUE]

ListWidget(view, flt, page, psize, res) ==
  [widget |-> "list", generalview_name |-> view, filters |-> flt, page |-> page,
   page_size |-> psize, count |-> res.count, pks |-> res.pks]

SearchWidget(form, flt) == [widget |-> "search", form |-> form, filters |-> flt]

ShowWidget(pk, item) == [widget |-> "show", pk |-> pk, value_columns |-> item]

FormWidget(form, exclude_cols) ==
  [widget |-> "form", form |-> form, exclude_cols |-> exclude_cols]

Query(view, flt, oc, od, page, psize) ==
  [view |-> view, filters |-> flt, order_column |-> oc, order_direction |-> od,
   page |-> page, page_size |-> psize]

\* (order_column, order_direction) of a view: its entry of _get_order_args
\* when it has one (a pair is never falsy), else ('', '').
OrderOf(ords, view) ==
  IF DictGet(ords, view) # None THEN ords[view] ELSE << <<>>, Some(<<>>) >>

\* The stored objects of the related view's own model are not written by any
\* handler here: its query answers with what that store holds.
related_query == [count |-> 0, pks |-> {}]

get_pk_value(item) == IF item = None THEN None ELSE Some(item[1].ref)

\* Filters().add_filter(fk, FilterRelationOneToMany, ..., pk of item)
RelatedFilters(item) ==
  << [col |-> <<"f", "k">>, idx |-> 0, value |-> get_pk_value(item)] >>

\* BaseCRUDView._get_related_list_widget: the query it makes.
RelatedQuery(item, view, ords, pgs) ==
  Query(view, RelatedFilters(item), OrderOf(ords, view)[1], OrderOf(ords, view)[2],
        DictGet(pgs, view), page_size)

\* BaseCRUDView._get_related_list_widgets: widgets['related_lists'].
RelatedWidgets(item, ords, pgs) ==
  [i \in 1..Len(related_views) |->
     ListWidget(related_views[i], RelatedFilters(item),
                DictGet(pgs, related_views[i]), page_size, related_query)]

RelatedQueries(item, ords, pgs) ==
  [i \in 1..Len(related_views) |-> RelatedQuery(item, related_views[i], ords, pgs)]

\* ----------------------------------------------------------- the handlers

\* What a handler did: the state it leaves and what it was seen to do.
Outcome(flt, recs, cs, qs, pgs, ords, app, rsp) ==
  [filters |-> flt, records |-> recs, calls |-> cs, queries |-> qs,
   pages |-> pgs, orders |-> ords, applied |-> app, resp |-> rsp]

\* GeneralView.list
ListResult(r, recs, flt0) ==
  LET form  == refresh(r.form)
      ords  == _get_order_args(r.args)
      order_column    == OrderOf(ords, ViewName)[1]
      order_direction == OrderOf(ords, ViewName)[2]
      pgs   == _get_page_args(r.args)
      page  == DictGet(pgs, ViewName)
      flt   == _get_filter_args(flt0, r.args)
      q     == Query(ViewName, flt, order_column, order_direction, page, page_size)
      widgets == [k \in {"list", "search"} |->
                    IF k = "list"
                    THEN ListWidget(ViewName, flt, page, page_size, datamodel_query(recs))
                    ELSE SearchWidget(form, flt)]
  IN  Outcome(flt, recs, <<>>, <<q>>, Some(pgs), Some(ords), Some(flt),
              Render("list", widgets))

\* A show that deletes the object it shows.
ShowResult_writing(r, recs, flt0) ==
  Outcome(flt0, datamodel_delete(recs, datamodel_get(recs, r.pk)), <<>>, <<>>,
          Some(_get_page_args(r.args)), Some(_get_order_args(r.args)), None,
          Render("show", EmptyDict))

\* GeneralView.show
ShowResult(r, recs, flt0) ==
  LET item == datamodel_get(recs, r.pk)
      pgs  == _get_page_args(r.args)
      ords == _get_order_args(r.args)
      widgets == [k \in {"show", "related_lists"} |->
                    IF k = "show" THEN ShowWidget(r.pk, item)
                    ELSE RelatedWidgets(item, ords, pgs)]
  IN  Outcome(flt0, recs, <<>>, RelatedQueries(item, ords, pgs), Some(pgs), Some(ords),
              None, Render("show", widgets))

\* GeneralView.add, lines 710-720: the form validated.
add_valid_swapped(r, recs, flt, exclude_cols) ==
  LET item == SetRelations(populate_obj(Some(NewItem), r.form), exclude_cols, 1, flt)
  IN  Outcome(flt, datamodel_add(recs, item),
              << Call("populate_obj", Some(NewItem)), Call("datamodel.add", item),
                 Call("pre_add", item), Call("post_add", item) >>,
              <<>>, None, None, Some(flt), Redirect(_get_redirect(GeneralView, r.args)))

add_valid(r, recs, flt, exclude_cols) ==
  LET item == SetRelations(populate_obj(Some(NewItem), r.form), exclude_cols, 1, flt)
  IN  Outcome(flt, datamodel_add(recs, item),
              << Call("populate_obj", Some(NewItem)), Call("pre_add", item),
                 Call("datamodel.add", item), Call("post_add", item) >>,
              <<>>, None, None, Some(flt), Redirect(_get_redirect(GeneralView, r.args)))

\* form.validate_on_submit(): the request is a POST and the form validates.
validate_on_submit(r) == r.method = "POST" /\ r.valid

AddBranch(r, recs, flt0, ok) ==
  LET flt  == _get_filter_args(flt0, r.args)
      form == refresh(r.form)
      exclude_cols == get_relation_cols(flt)
      widgets == [k \in {"add"} |-> FormWidget(form, exclude_cols)]
  IN  IF ok
      THEN add_valid(r, recs, flt, exclude_cols)
      ELSE Outcome(flt, recs, <<>>, <<>>, None, None, Some(flt), Render("add", widgets))

AddResult_novalidate(r, recs, flt0) == AddBranch(r, recs, flt0, r.method = "POST")

\* GeneralView.add
AddResult(r, recs, flt0) == AddBranch(r, recs, flt0, validate_on_submit(r))

\* GeneralView.edit, lines 750-759: the form validated.
edit_valid_swapped(r, recs, flt, exclude_cols, item0) ==
  LET item == SetRelations(populate_obj(item0, r.form), exclude_cols, 1, flt)
  IN  Outcome(flt, datamodel_edit(recs, item),
              << Call("populate_obj", item0), Call("datamodel.edit", item),
                 Call("pre_update", item), Call("post_update", item) >>,
              <<>>, Some(_get_page_args(r.args)), Some(_get_order_args(r.args)),
              Some(flt), Redirect(_get_redirect(GeneralView, r.args)))

edit_valid(r, recs, flt, exclude_cols, item0) ==
  LET item == SetRelations(populate_obj(item0, r.form), exclude_cols, 1, flt)
  IN  Outcome(flt, datamodel_edit(recs, item),
              << Call("populate_obj", item0), Call("pre_update", item),
                 Call("datamodel.edit", item), Call("post_update", item) >>,
              <<>>, Some(_get_page_args(r.args)), Some(_get_order_args(r.args)),
              Some(flt), Redirect(_get_redirect(GeneralView, r.args)))

\* The data the edit form shows: the request's on a POST, the item's on a GET.
EditFormData(r, item) ==
  IF r.method = "POST" THEN r.form
  ELSE IF item = None THEN "" ELSE item[1].data

EditBranch(r, recs, flt0, ok) ==
  LET pgs  == _get_page_args(r.args)
      ords == _get_order_args(r.args)
      item == datamodel_get(recs, r.pk)
      flt  == _get_filter_args(flt0, r.args)
      exclude_cols == get_relation_cols(flt)
      form == refresh(EditFormData(r, item))
      widgets == [k \in {"edit", "related_lists"} |->
                    IF k = "edit" THEN FormWidget(form, exclude_cols)
                    ELSE RelatedWidgets(item, ords, pgs)]
  IN  IF ok
      THEN edit_valid(r, recs, flt, exclude_cols, item)
      ELSE Outcome(flt, recs, <<>>, RelatedQueries(item, ords, pgs), Some(pgs),
                   Some(ords), Some(flt), Render("edit", widgets))

EditResult_novalidate(r, recs, flt0) == EditBranch(r, recs, flt0, r.method = "POST")

\* GeneralView.edit
EditResult(r, recs, flt0) == EditBranch(r, recs, flt0, r.method = "POST" /\ r.valid)

\* GeneralView.delete
DeleteResult_other(r, recs, flt0) ==
  LET item  == datamodel_get(recs, r.pk)
      other == datamodel_get(recs, Min(Pks \ {r.pk}))
  IN  Outcome(flt0, datamodel_delete(recs, other),
              << Call("pre_delete", item), Call("datamodel.delete", other),
                 Call("post_delete", item) >>,
              <<>>, None, None, None, Redirect(_get_redirect(GeneralView, r.args)))

DeleteResult(r, recs, flt0) ==
  LET item == datamodel_get(recs, r.pk)
  IN  Outcome(flt0, datamodel_delete(recs, item),
              << Call("pre_delete", item), Call("datamodel.delete", item),
                 Call("post_delete", item) >>,
              <<>>, None, None, None, Redirect(_get_redirect(GeneralView, r.args)))

\* SimpleFormView.this_form_get
FormGetResult(r, recs, flt0) ==
  LET form    == refresh(r.form)
      widgets == [k \in {"edit"} |-> FormWidget(form, <<>>)]
  IN  Outcome(flt0, recs, << Call("form_get", Some(form)) >>, <<>>, None, None, None,
              Render("form", widgets))

FormPostBranch(r, recs, flt0, ok) ==
  LET form    == refresh(r.form)
      widgets == [k \in {"edit"} |-> FormWidget(form, <<>>)]
  IN  IF ok
      THEN Outcome(flt0, recs, << Call("form_post", Some(form)) >>, <<>>, None, None,
                   None, Redirect(_get_redirect(FormView, r.args)))
      ELSE Outcome(flt0, recs, <<>>, <<>>, None, None, None, Render("form", widgets))

FormPostResult_novalidate(r, recs, flt0) == FormPostBranch(r, recs, flt0, TRUE)

\* SimpleFormView.this_form_post
FormPostResult(r, recs, flt0) == FormPostBranch(r, recs, flt0, validate_on_submit(r))

\* ------------------------------------------------- one request at a time

Threads == {"t1", "t2"}

\* The default dicts of _get_list_widget, _get_show_widget, _get_add_widget
\* and _get_edit_widget: made once, when the function is defined.
NoWidgets == [f \in {"list", "show", "add", "edit"} |-> EmptyDict]

NoLocals ==
  [i |-> 0, j |-> 0, item |-> None, exclude_cols |-> <<>>, res |-> datamodel_query(EmptyDict),
   target |-> "", got |-> <<>>, built |-> EmptyDict, built_lists |-> <<>>]

\* No request is in hand and no thread has started.
AtRest ==
  /\ phase = "idle"
  /\ req = NoRequest
  /\ recs0 = EmptyDict
  /\ calls = <<>>
  /\ queries = <<>>
  /\ pages = None
  /\ orders = None
  /\ applied = None
  /\ resp = NoResponse
  /\ wd = NoWidgets
  /\ tpc = [t \in Threads |-> "idle"]
  /\ trq = [t \in Threads |-> NoRequest]
  /\ tloc = [t \in Threads |-> NoLocals]
  /\ tout = [t \in Threads |-> NoResponse]
  /\ lists = [t \in Threads |-> <<>>]

\* The views are constructed and registered: no construction is looked at.
NoConstruction ==
  /\ klass = None
  /\ obj = None
  /\ life = ""

\* After construction: no filter is selected; the store is empty.
Init ==
  /\ records = EmptyDict
  /\ filters = <<>>
  /\ AtRest
  /\ NoConstruction

\* The request r is handled with outcome o.
Handle(r, o) ==
  /\ phase = "idle"
  /\ phase' = "done"
  /\ req' = r
  /\ recs0' = records
  /\ records' = o.records
  /\ filters' = o.filters
  /\ calls' = o.calls
  /\ queries' = o.queries
  /\ pages' = o.pages
  /\ orders' = o.orders
  /\ applied' = o.applied
  /\ resp' = o.resp
  /\ UNCHANGED <<concVars, ctorVars>>

List == \E r \in ListRequests : Handle(r, ListResult(r, records, filters))

Show == \E r \in ShowRequests : Handle(r, ShowResult(r, records, filters))

\* The store takes at most MaxPk objects: a form that validates is posted
\* to add only while a primary key is free.
Add ==
  \E r \in AddRequests :
    /\ validate_on_submit(r) => Pks \ DOMAIN records # {}
    /\ Handle(r, AddResult(r, records, filters))

Edit == \E r \in EditRequests : Handle(r, EditResult(r, records, filters))

Delete == \E r \in DeleteRequests : Handle(r, DeleteResult(r, records, filters))

FormGet == \E r \in FormGetRequests : Handle(r, FormGetResult(r, records, filters))

FormPost == \E r \in FormPostRequests : Handle(r, FormPostResult(r, records, filters))

\* The response is sent and the request context is popped: the view objects
\* and the store stay as the handler left them.
Finish ==
  /\ phase = "done"
  /\ phase' = "idle"
  /\ req' = NoRequest
  /\ recs0' = EmptyDict
  /\ calls' = <<>>
  /\ queries' = <<>>
  /\ pages' = None
  /\ orders' = None
  /\ applied' = None
  /\ resp' = NoResponse
  /\ UNCHANGED <<records, filters, concVars, ctorVars>>

Next == List \/ Show \/ Add \/ Edit \/ Delete \/ FormGet \/ FormPost \/ Finish

Spec == Init /\ [][Next]_vars

\* ------------------------------------------------------------- the claims

Done(h) == phase = "done" /\ req.handler = h

Ops(cs) == [i \in 1..Len(cs) |-> cs[i].op]

\* The calls of the hooks and of the datamodel's writes.
Work(cs) == SelectSeq(cs, LAMBDA c : c.op # "populate_obj")

SameItem(cs) == \A i, j \in 1..Len(cs) : cs[i].item = cs[j].item

\* C2: an add request whose form validates calls pre_add(item), then
\* datamodel.add(item), then post_add(item), each once, in that order and on
\* the same item (the new object, populated from the form), stores that item,
\* and answers with a redirect.
C2_AddHooksInOrder ==
  (Done("add") /\ validate_on_submit(req)) =>
    /\ Ops(Work(calls)) = <<"pre_add", "datamodel.add", "post_add">>
    /\ SameItem(Work(calls))
    /\ Work(calls)[1].item[1].ref = NewItem.ref
    /\ Work(calls)[1].item[1].data = req.form
    /\ records = datamodel_add(recs0, Work(calls)[2].item)
    /\ resp.kind = "redirect"

C2_Witness ==
  /\ Done("add") /\ validate_on_submit(req)
  /\ Len(calls) = 4
  /\ Cardinality(DOMAIN records) = Cardinality(DOMAIN recs0) + 1

\* C3: an edit POST whose form validates populates the item loaded for the
\* requested pk, then calls pre_update(item), datamodel.edit(item),
\* post_update(item), each once and in that order on that item, and answers
\* with a redirect.
C3_EditHooksInOrder ==
  (Done("edit") /\ req.method = "POST" /\ req.valid) =>
    /\ Ops(calls) = <<"populate_obj", "pre_update", "datamodel.edit", "post_update">>
    /\ calls[1].item = datamodel_get(recs0, req.pk)
    /\ SameItem(Work(calls))
    /\ get_pk_value(calls[2].item) = get_pk_value(calls[1].item)
    /\ calls[2].item # None => calls[2].item[1].data = req.form
    /\ records = datamodel_edit(recs0, calls[3].item)
    /\ resp.kind = "redirect"

C3_Witness ==
  /\ Done("edit") /\ req.method = "POST" /\ req.valid
  /\ req.pk \in DOMAIN recs0
  /\ Len(calls) = 4
  /\ records[req.pk].data # recs0[req.pk].data

\* C4: a delete request for a pk loads the item with that pk, calls
\* pre_delete(item), datamodel.delete(item), post_delete(item), each once and
\* in that order, and answers with a redirect; every other stored object is
\* still stored.
C4_DeleteHooksInOrder ==
  Done("delete") =>
    /\ Ops(calls) = <<"pre_delete", "datamodel.delete", "post_delete">>
    /\ \A i \in 1..Len(calls) : calls[i].item = datamodel_get(recs0, req.pk)
    /\ \A p \in (DOMAIN recs0) \ {req.pk} : p \in DOMAIN records /\ records[p] = recs0[p]
    /\ req.pk \notin DOMAIN records
    /\ resp.kind = "redirect"

C4_Witness ==
  /\ Done("delete")
  /\ req.pk \in DOMAIN recs0
  /\ DOMAIN records = (DOMAIN recs0) \ {req.pk}
  /\ DOMAIN records # {}
  /\ Len(calls) = 3

\* C5: an add request or an edit POST whose form does not validate renders
\* the add, respectively the edit, template with the submitted form, calls no
\* hook and no datamodel write, does not redirect, and leaves the stored
\* objects as they were.
C5_InvalidFormRerenders ==
  /\ (Done("add") /\ req.method = "POST" /\ ~req.valid) =>
       /\ resp.kind = "render" /\ resp.template = "add"
       /\ resp.widgets["add"].form = refresh(req.form)
       /\ calls = <<>>
       /\ records = recs0
  /\ (Done("edit") /\ req.method = "POST" /\ ~req.valid) =>
       /\ resp.kind = "render" /\ resp.template = "edit"
       /\ resp.widgets["edit"].form = refresh(req.form)
       /\ calls = <<>>
       /\ records = recs0

C5_Witness ==
  /\ phase = "done" /\ req.handler \in {"add", "edit"}
  /\ req.method = "POST" /\ ~req.valid
  /\ resp.kind = "render"
  /\ records # EmptyDict

\* C6: in a SimpleFormView a GET on /form calls form_get once, with the
\* refreshed form, and never form_post; a POST calls form_post once and
\* redirects when the form validates, and calls neither and renders the form
\* template when it does not.
C6_FormHooks ==
  /\ Done("this_form_get") =>
       /\ calls = << Call("form_get", Some(refresh(req.form))) >>
       /\ resp.kind = "render" /\ resp.template = "form"
  /\ (Done("this_form_post") /\ req.valid) =>
       /\ calls = << Call("form_post", Some(refresh(req.form))) >>
       /\ resp.kind = "redirect"
  /\ (Done("this_form_post") /\ ~req.valid) =>
       /\ calls = <<>>
       /\ resp.kind = "render" /\ resp.template = "form"
       /\ resp.widgets["edit"].form = refresh(req.form)

C6_Witness ==
  /\ Done("this_form_post") /\ ~req.valid
  /\ resp.kind = "render"
  /\ calls = <<>>

\* The views V for which the query string has a parameter named lit + V.
ViewsNamed(lit, args) ==
  {RestFrom(n, Len(lit) + 1) : n \in {m \in ArgNames(args) : LitAt(lit, m, 1)}}

\* C7: _get_page_args returns a mapping whose keys are exactly the views V
\* for which the query string has a parameter named page_V, with the integer
\* value of that parameter; a parameter of another name adds no entry; the
\* list handler queries with page = None when its view has no entry.
C7_PageArgs ==
  (phase = "done" /\ pages # None) =>
    /\ DOMAIN pages[1] = ViewsNamed(PAGE_, req.args)
    /\ \A v \in ViewsNamed(PAGE_, req.args) :
         v \in DOMAIN pages[1] => pages[1][v] = IntOf(ArgsGet(req.args, PAGE_ \o v)[1])
    /\ (req.handler = "list" /\ ViewName \notin ViewsNamed(PAGE_, req.args)) =>
         queries[1].page = None

\* C8: _get_order_args maps each view V that has a parameter _oc_V to the
\* pair (value of _oc_V, value of _od_V) and has no entry for another view;
\* the list handler queries with that pair for its own view and with ('', '')
\* when its view has no entry.
C8_OrderArgs ==
  (phase = "done" /\ orders # None) =>
    /\ DOMAIN orders[1] = ViewsNamed(OC_, req.args)
    /\ \A v \in ViewsNamed(OC_, req.args) :
         v \in DOMAIN orders[1] =>
           orders[1][v] = <<ArgsGet(req.args, OC_ \o v)[1], ArgsGet(req.args, OD_ \o v)>>
    /\ (req.handler = "list" /\ ViewName \in ViewsNamed(OC_, req.args)) =>
         /\ queries[1].order_column = ArgsGet(req.args, OC_ \o ViewName)[1]
         /\ queries[1].order_direction = ArgsGet(req.args, OD_ \o ViewName)
    /\ (req.handler = "list" /\ ViewName \notin ViewsNamed(OC_, req.args)) =>
         /\ queries[1].order_column = <<>>
         /\ queries[1].order_direction = Some(<<>>)

\* The decimal digits that stand in s from position i on.
RECURSIVE DigitRun(_, _)
DigitRun(s, i) ==
  IF i <= Len(s) /\ s[i] \in Digits THEN 1 + DigitRun(s, i + 1) ELSE 0

\* A parameter name of the form _flt_<index>_<column>, <index> a
\* non-negative integer in decimal.
IsFilterName(n) ==
  LET k == DigitRun(n, Len(FLT_) + 1)
  IN  /\ LitAt(FLT_, n, 1)
      /\ k >= 1
      /\ Len(n) >= Len(FLT_) + k + 1
      /\ n[Len(FLT_) + k + 1] = "_"

\* The filter such a parameter asks for.
FilterNamed(n, value) ==
  LET k == DigitRun(n, Len(FLT_) + 1)
  IN  [col   |-> RestFrom(n, Len(FLT_) + k + 2),
       idx   |-> IntOf(SubSeq(n, Len(FLT_) + 1, Len(FLT_) + k)),
       value |-> value]

\* The filters a query string asks for.
FiltersGiven(args) ==
  {FilterNamed(args[i][1], args[i][2]) : i \in {j \in 1..Len(args) : IsFilterName(args[j][1])}}

FilterSet(flt) == {flt[i] : i \in 1..Len(flt)}

\* C9: for every parameter named _flt_<index>_<column>, <index> any
\* non-negative integer, _get_filter_args adds exactly one filter on <column>
\* with that index and the parameter's value; a parameter not of this form
\* adds no filter.
C9_FilterArgs ==
  (phase = "done" /\ applied # None) =>
    /\ FilterSet(applied[1]) = FiltersGiven(req.args)
    /\ Len(applied[1]) = Cardinality(FiltersGiven(req.args))

\* C10: the filters a list, add or edit handler works with are those the
\* current request's query string gives: each of them is given there, each
\* filter given there is among them, and a request with no filter parameter
\* is handled with no filter.
C10_FiltersPerRequest ==
  (phase = "done" /\ req.handler \in {"list", "add", "edit"}) =>
    /\ \A i \in 1..Len(filters) : filters[i] \in FiltersGiven(req.args)
    /\ \A f \in FiltersGiven(req.args) : f \in FilterSet(filters)
    /\ (\A n \in ArgNames(req.args) : ~IsFilterName(n)) => filters = <<>>

\* What does hold of the filters from one request to the next: the handler
\* starts from no filter, whatever the request before left.
FiltersNotCarried ==
  (phase = "done" /\ applied # None) =>
    /\ applied[1] = filters
    /\ filters = FilterArgsLoop(req.args, 1, <<>>)

\* ------------------------------------------- two requests in two threads

\* The view objects are made once and every request's thread calls their
\* methods: self._filters and the default dicts are the same objects in both
\* threads.  A thread takes one step per access to such an object.

ConcQueryStrings ==
  { <<>>,
    << P(FLT_ \o <<"0", "_", "c">>, <<"1">>) >>,
    << P(FLT_ \o <<"1", "_", "d">>, <<"2">>), P(PAGE_ \o ViewName, <<"2">>) >> }

ConcRequests ==
  {r \in ListRequests \cup ShowRequests \cup AddRequests \cup EditRequests :
     r.args \in ConcQueryStrings /\ r.form \in {"", "a"} /\ r.pk \in {0, 1}}

\* What a dict holds under a key: the widget, and whether its filters are
\* the view's own Filters object (read when the template is rendered) or a
\* Filters object made for it.
Held(w, own) == [w |-> w, own |-> own]

\* The widget as the template reads it while self._filters is flt.
Read(h, flt) == IF h.own THEN [h.w EXCEPT !.filters = flt] ELSE h.w

\* What a dict holds under 'related_lists': the list object thread t made.
ListOf(t) == [list |-> t]

\* The dict d as the template reads it while self._filters is flt and the
\* list objects are ls.
ReadAll(d, flt, ls) ==
  [k \in DOMAIN d |->
     IF k = "related_lists"
     THEN [n \in 1..Len(ls[d[k].list]) |-> Read(ls[d[k].list][n], flt)]
     ELSE Read(d[k], flt)]

\* Thread t goes to pc with locals loc.
Goto(t, pc, loc) ==
  /\ tpc' = [tpc EXCEPT ![t] = pc]
  /\ tloc' = [tloc EXCEPT ![t] = loc]

\* Thread t writes d[k] = h on the default dict of function f, and notes the
\* widget as one it built.
SetWidget(t, f, k, h, pc) ==
  /\ wd' = [wd EXCEPT ![f] = Put(@, k, h)]
  /\ Goto(t, pc, [tloc[t] EXCEPT !.built = Put(@, k, h)])

SeqIdle == UNCHANGED <<seqVars, ctorVars>>

\* The threads that are about to add an object.
Adding ==
  {u \in Threads : /\ trq[u].handler = "add" /\ validate_on_submit(trq[u])
                   /\ tpc[u] \notin {"idle", "done"}}

\* A request comes in and Flask routes it to its handler in thread t.  The
\* store takes at most MaxPk objects: a form that validates is posted to add
\* only while a primary key is left for it.
Start(t) ==
  /\ tpc[t] = "idle"
  /\ \E r \in ConcRequests :
       /\ (r.handler = "add" /\ validate_on_submit(r)) =>
            Cardinality(DOMAIN records) + Cardinality(Adding) < MaxPk
       /\ trq' = [trq EXCEPT ![t] = r]
       /\ tpc' = [tpc EXCEPT ![t] =
                    CASE r.handler = "list" -> "clear_filters"
                      [] r.handler = "show" -> "show_widget"
                      [] r.handler = "add"  -> "clear_filters"
                      [] r.handler = "edit" -> "edit_get"]
  /\ UNCHANGED <<records, filters, wd, tloc, tout, lists>>
  /\ SeqIdle

\* edit, line 740: item = self.datamodel.get(pk)
EditGet(t) ==
  /\ tpc[t] = "edit_get"
  /\ Goto(t, "clear_filters", [tloc[t] EXCEPT !.item = datamodel_get(records, trq[t].pk)])
  /\ UNCHANGED <<records, filters, wd, trq, tout, lists>>
  /\ SeqIdle

\* _get_filter_args, line 341: self._filters.clear_filters()
ClearFilters(t) ==
  /\ tpc[t] = "clear_filters"
  /\ filters' = clear_filters(filters)
  /\ Goto(t, "add_filter", [tloc[t] EXCEPT !.i = 1])
  /\ UNCHANGED <<records, wd, trq, tout, lists>>
  /\ SeqIdle

\* _get_filter_args, lines 342-345: one turn of the loop over request.args.
AddFilter(t) ==
  /\ tpc[t] = "add_filter"
  /\ tloc[t].i <= Len(trq[t].args)
  /\ LET arg      == trq[t].args[tloc[t].i][1]
         re_match == ReFindallDigitRest(FLT_, arg)
     IN  filters' = IF re_match # <<>>
                    THEN add_filter_index(filters, re_match[1][2], IntOf(re_match[1][1]),
                                          ArgsGet(trq[t].args, arg)[1])
                    ELSE filters
  /\ Goto(t, "add_filter", [tloc[t] EXCEPT !.i = @ + 1])
  /\ UNCHANGED <<records, wd, trq, tout, lists>>
  /\ SeqIdle

\* _get_filter_args returns to the handler.
FiltersRead(t) ==
  /\ tpc[t] = "add_filter"
  /\ tloc[t].i > Len(trq[t].args)
  /\ Goto(t, IF trq[t].handler = "list" THEN "list_query" ELSE "exclude_cols", tloc[t])
  /\ UNCHANGED <<records, filters, wd, trq, tout, lists>>
  /\ SeqIdle

\* _get_list_widget, lines 527-528: the query, with self._filters as it is.
ListQuery(t) ==
  /\ tpc[t] = "list_query"
  /\ Goto(t, "list_widget", [tloc[t] EXCEPT !.res = datamodel_query(records)])
  /\ UNCHANGED <<records, filters, wd, trq, tout, lists>>
  /\ SeqIdle

\* _get_list_widget, lines 529-541: widgets['list'] = self.list_widget(...)
ListWidgetSet(t) ==
  /\ tpc[t] = "list_widget"
  /\ SetWidget(t, "list", "list",
       Held(ListWidget(ViewName, <<>>, DictGet(_get_page_args(trq[t].args), ViewName),
                       page_size, tloc[t].res), TRUE),
       "search_widget")
  /\ UNCHANGED <<records, filters, trq, tout, lists>>
  /\ SeqIdle

\* list, line 661: _get_search_widget(form = form, widgets = widgets) writes
\* 'search' into the dict _get_list_widget returned.
SearchWidgetSet(t) ==
  /\ tpc[t] = "search_widget"
  /\ SetWidget(t, "list", "search", Held(SearchWidget(refresh(trq[t].form), <<>>), TRUE),
               "render")
  /\ UNCHANGED <<records, filters, trq, tout, lists>>
  /\ SeqIdle

\* _get_show_widget, lines 548-557: widgets['show'] = self.show_widget(...)
ShowWidgetSet(t) ==
  /\ tpc[t] = "show_widget"
  /\ SetWidget(t, "show", "show",
       Held(ShowWidget(trq[t].pk, datamodel_get(records, trq[t].pk)), FALSE), "show_get")
  /\ UNCHANGED <<records, filters, trq, tout, lists>>
  /\ SeqIdle

\* show, line 680: item = self.datamodel.get(pk)
ShowGet(t) ==
  /\ tpc[t] = "show_get"
  /\ Goto(t, "related_init", [tloc[t] EXCEPT !.item = datamodel_get(records, trq[t].pk)])
  /\ UNCHANGED <<records, filters, wd, trq, tout, lists>>
  /\ SeqIdle

\* _get_related_list_widgets, line 511: widgets['related_lists'] = [], on the
\* dict the handler passed, which is the default dict of _get_show_widget or
\* of _get_edit_widget.
RelatedInit(t) ==
  /\ tpc[t] = "related_init"
  /\ lists' = [lists EXCEPT ![t] = <<>>]
  /\ wd' = [wd EXCEPT ![trq[t].handler] = Put(@, "related_lists", ListOf(t))]
  /\ Goto(t, "related_loop",
          [tloc[t] EXCEPT !.j = 1, !.built = Put(@, "related_lists", ListOf(t)),
                          !.built_lists = <<>>])
  /\ UNCHANGED <<records, filters, trq, tout>>
  /\ SeqIdle

\* Line 516: widgets['related_lists'].append is looked up before the call
\* that makes its argument: the list the dict holds now is the one appended to.
RelatedLoop(t) ==
  /\ tpc[t] = "related_loop"
  /\ tloc[t].j <= Len(related_views)
  /\ Goto(t, "related_query",
          [tloc[t] EXCEPT !.target = wd[trq[t].handler]["related_lists"].list])
  /\ UNCHANGED <<records, filters, wd, trq, tout, lists>>
  /\ SeqIdle

\* The loop over self.related_views is over.
RelatedDone(t) ==
  /\ tpc[t] = "related_loop"
  /\ tloc[t].j > Len(related_views)
  /\ Goto(t, "render", tloc[t])
  /\ UNCHANGED <<records, filters, wd, trq, tout, lists>>
  /\ SeqIdle

\* The widget of related_views[j] for the item of thread t.
RelatedWidget(t) ==
  Held(ListWidget(related_views[tloc[t].j], RelatedFilters(tloc[t].item),
                  DictGet(_get_page_args(trq[t].args), related_views[tloc[t].j]),
                  page_size, related_query),
       FALSE)

\* _get_related_list_widget, lines 502-508: related_view._get_list_widget is
\* called without widgets, so it writes 'list' into its default dict, the one
\* every GeneralView's _get_list_widget has.
RelatedQueryStep(t) ==
  /\ tpc[t] = "related_query"
  /\ wd' = [wd EXCEPT !["list"] = Put(@, "list", RelatedWidget(t))]
  /\ Goto(t, "related_get", [tloc[t] EXCEPT !.built_lists = Append(@, RelatedWidget(t))])
  /\ UNCHANGED <<records, filters, trq, tout, lists>>
  /\ SeqIdle

\* Line 517: .get('list') on the dict _get_list_widget returned.
RelatedGet(t) ==
  /\ tpc[t] = "related_get"
  /\ Goto(t, "related_append", [tloc[t] EXCEPT !.got = wd["list"]["list"]])
  /\ UNCHANGED <<records, filters, wd, trq, tout, lists>>
  /\ SeqIdle

\* Line 516: the append.
RelatedAppend(t) ==
  /\ tpc[t] = "related_append"
  /\ lists' = [lists EXCEPT ![tloc[t].target] = Append(@, tloc[t].got)]
  /\ Goto(t, "related_loop", [tloc[t] EXCEPT !.j = @ + 1])
  /\ UNCHANGED <<records, filters, wd, trq, tout>>
  /\ SeqIdle

\* add, line 707, and edit, line 742: exclude_cols =
\* self._filters.get_relation_cols(), and the branch on the form.
ExcludeCols(t) ==
  /\ tpc[t] = "exclude_cols"
  /\ Goto(t,
          IF trq[t].method = "POST" /\ trq[t].valid
          THEN (IF trq[t].handler = "add" THEN "add_valid" ELSE "edit_valid")
          ELSE (IF trq[t].handler = "add" THEN "add_widget" ELSE "edit_widget"),
          [tloc[t] EXCEPT !.exclude_cols = get_relation_cols(filters)])
  /\ UNCHANGED <<records, filters, wd, trq, tout, lists>>
  /\ SeqIdle

\* add, lines 710-720.
AddValid(t) ==
  /\ tpc[t] = "add_valid"
  /\ LET o == add_valid(trq[t], records, filters, tloc[t].exclude_cols)
     IN  /\ records' = o.records
         /\ tout' = [tout EXCEPT ![t] = o.resp]
  /\ Goto(t, "done", tloc[t])
  /\ UNCHANGED <<filters, wd, trq, lists>>
  /\ SeqIdle

\* _get_add_widget, lines 561-567.
AddWidgetSet(t) ==
  /\ tpc[t] = "add_widget"
  /\ SetWidget(t, "add", "add",
       Held(FormWidget(refresh(trq[t].form), tloc[t].exclude_cols), FALSE), "render")
  /\ UNCHANGED <<records, filters, trq, tout, lists>>
  /\ SeqIdle

\* edit, lines 750-759.
EditValid(t) ==
  /\ tpc[t] = "edit_valid"
  /\ LET o == edit_valid(trq[t], records, filters, tloc[t].exclude_cols, tloc[t].item)
     IN  /\ records' = o.records
         /\ tout' = [tout EXCEPT ![t] = o.resp]
  /\ Goto(t, "done", tloc[t])
  /\ UNCHANGED <<filters, wd, trq, lists>>
  /\ SeqIdle

\* _get_edit_widget, lines 570-576.
EditWidgetSet(t) ==
  /\ tpc[t] = "edit_widget"
  /\ SetWidget(t, "edit", "edit",
       Held(FormWidget(refresh(EditFormData(trq[t], tloc[t].item)), tloc[t].exclude_cols),
            FALSE),
       "related_init")
  /\ UNCHANGED <<records, filters, trq, tout, lists>>
  /\ SeqIdle

\* render_template(..., widgets = widgets): the template reads the dict the
\* handler holds, which is the default dict, and the Filters object the
\* widgets refer to.
RenderStep(t) ==
  /\ tpc[t] = "render"
  /\ tout' = [tout EXCEPT ![t] =
                Render(trq[t].handler, ReadAll(wd[trq[t].handler], filters, lists))]
  /\ Goto(t, "done", tloc[t])
  /\ UNCHANGED <<records, filters, wd, trq, lists>>
  /\ SeqIdle

\* A store with one object, and both threads idle.
InitConc ==
  /\ records = [p \in {1} |-> [data |-> "b", rel |-> {}]]
  /\ filters = <<>>
  /\ AtRest
  /\ NoConstruction

Step(t) ==
  \/ Start(t)
  \/ EditGet(t)
  \/ ClearFilters(t)
  \/ AddFilter(t)
  \/ FiltersRead(t)
  \/ ListQuery(t)
  \/ ListWidgetSet(t)
  \/ SearchWidgetSet(t)
  \/ ShowWidgetSet(t)
  \/ ShowGet(t)
  \/ RelatedInit(t)
  \/ RelatedLoop(t)
  \/ RelatedDone(t)
  \/ RelatedQueryStep(t)
  \/ RelatedGet(t)
  \/ RelatedAppend(t)
  \/ ExcludeCols(t)
  \/ AddValid(t)
  \/ AddWidgetSet(t)
  \/ EditValid(t)
  \/ EditWidgetSet(t)
  \/ RenderStep(t)

NextConc == \E t \in Threads : Step(t)

SpecConc == InitConc /\ [][NextConc]_vars

\* The same two requests, the second taken up when the first is answered.
NextOneByOne ==
  \E t \in Threads :
    /\ \A u \in Threads \ {t} : tpc[u] \in {"idle", "done"}
    /\ Step(t)

SpecOneByOne == InitConc /\ [][NextOneByOne]_vars

\* The widgets thread t built for its request, read with the filters its own
\* query string selects.
OwnWidgets(t) ==
  ReadAll(tloc[t].built, FilterArgsLoop(trq[t].args, 1, <<>>),
          [u \in Threads |-> tloc[t].built_lists])

\* C1: no mutable state is shared across requests: for any two requests to
\* the list, show, add or edit handlers handled in two threads, the widgets
\* and the filters a response is rendered from are the ones computed for that
\* request itself.
C1_RenderedFromOwnWidgets ==
  \A t \in Threads :
    (tpc[t] = "done" /\ tout[t].kind = "render") => tout[t].widgets = OwnWidgets(t)

\* ------------------------------------------------------ the construction

\* A view class is declared; no object of it is made yet.
InitCtor ==
  /\ records = EmptyDict
  /\ filters = <<>>
  /\ AtRest
  /\ klass \in ViewClasses
  /\ obj = None
  /\ life = "class"

\* obj = TheClass(): BaseCRUDView.__init__ on an object whose attributes are
\* the class's.
Construct ==
  /\ life = "class"
  /\ LET made == BaseCRUDView__init__(klass)
     IN  /\ obj' = made.self
         /\ life' = IF made.ok THEN "constructed" ELSE "raised"
  /\ UNCHANGED <<klass, records, filters, seqVars, concVars>>

\* obj.create_blueprint(baseapp, static_folder = ...)
CreateBlueprint ==
  /\ life = "constructed"
  /\ \E static_folder \in {None, Some("s")} :
       obj' = create_blueprint(obj, "baseapp", static_folder)
  /\ life' = "registered"
  /\ UNCHANGED <<klass, records, filters, seqVars, concVars>>

NextCtor == Construct \/ CreateBlueprint

SpecCtor == InitCtor /\ [][NextCtor]_vars

\* The fields of the fieldsets, in fieldset order.
RECURSIVE Flatten(_)
Flatten(fieldsets) ==
  IF fieldsets = <<>> THEN <<>>
  ELSE Head(fieldsets).fields \o Flatten(Tail(fieldsets))

\* The columns list a page is to have, from the fieldsets and the columns
\* list its class declares.
PageColumns(fieldsets, declared) ==
  IF fieldsets # <<>> THEN Flatten(fieldsets)
  ELSE IF declared # None /\ declared[1] # <<>> THEN declared[1]
  ELSE get_columns_list

\* C11: after construction of a CRUD view, for each of show, add and edit:
\* if the fieldsets list is non-empty the columns list is the concatenation,
\* in fieldset order, of the fields of every fieldset, whatever columns list
\* the class declared; if it is empty the columns list is the declared one
\* when that is non-empty and the datamodel's column list otherwise.
C11_FieldsetsGiveColumns ==
  life \in {"constructed", "registered"} =>
    /\ obj.show_columns = Some(PageColumns(klass.show_fieldsets, klass.show_columns))
    /\ obj.add_columns  = Some(PageColumns(klass.add_fieldsets, klass.add_columns))
    /\ obj.edit_columns = Some(PageColumns(klass.edit_fieldsets, klass.edit_columns))

C11_Witness ==
  /\ life = "constructed"
  /\ Len(klass.show_fieldsets) = 2 /\ klass.show_columns = Some(<< <<"e">>, <<"c">> >>)
  /\ obj.show_columns = Some(<< <<"d">>, <<"c">>, <<"e">> >>)
  /\ klass.add_fieldsets = <<>> /\ obj.add_columns = Some(<< <<"c">> >>)
  /\ klass.edit_fieldsets = <<>> /\ klass.edit_columns = None
  /\ obj.edit_columns = Some(get_columns_list)

\* How many times x occurs in the sequence s.
Count(s, x) == Cardinality({i \in 1..Len(s) : s[i] = x})

\* The URL rule of a decoration d of the method m.
RuleOf(m, d) == [rule |-> d[1], endpoint |-> m, methods |-> d[2]]

Exposed  == {m \in DOMAIN klass.exposes : klass.exposes[m] # <<>>}
Actioned == {m \in DOMAIN klass.action_of : klass.action_of[m] # None}

\* The elements of the list l, None when l is None.
Elements(l) == IF l = None THEN None ELSE Some({l[1][i] : i \in 1..Len(l[1])})

\* C13: constructing a view completes without error whether or not the view
\* has action methods; when base_permissions is not overridden, it then holds
\* 'can_<name>' for exactly the methods decorated with expose plus the action
\* name of every method that has _action, and actions holds one item for each
\* such method; an overridden base_permissions is left as it is.
C13_BasePermissions ==
  life # "class" =>
    /\ life # "raised"
    /\ klass.base_permissions = None =>
         /\ Elements(obj.base_permissions)
              = Some({CAN_ \o m : m \in Exposed}
                       \cup {klass.action_of[m][1][1] : m \in Actioned})
         /\ obj.actions # None
         /\ Len(obj.actions[1]) = Cardinality(Actioned)
    /\ klass.base_permissions # None =>
         obj.base_permissions = klass.base_permissions

\* C14 (construction): after construction of a CRUD view that does not
\* override order_columns, order_columns is the datamodel's order columns
\* list.
C14_OrderColumns ==
  (life \in {"constructed", "registered"} /\ klass.order_columns = None) =>
    obj.order_columns = Some(get_order_columns_list)

\* C14 (requests), under Spec, where the view's order_columns is the
\* datamodel's list at best: the order column of the list handler's query is
\* one of them, or '' for no order.
ListOrderAllowed ==
  Done("list") =>
    \/ queries[1].order_column = <<>>
    \/ \E i \in 1..Len(get_order_columns_list) :
         queries[1].order_column = get_order_columns_list[i]

\* The view a handler belongs to.
ViewOf(h) == IF h \in {"this_form_get", "this_form_post"} THEN FormView ELSE GeneralView

\* The request's form validated (an edit validates on POST only).
Succeeded ==
  \/ req.handler \in {"add", "this_form_post"} /\ validate_on_submit(req)
  \/ req.handler = "edit" /\ req.method = "POST" /\ req.valid
  \/ req.handler = "delete"

\* C15: the redirect that follows a successful add, edit, delete or form
\* post goes to the value of the request's 'next' parameter when that is
\* present and non-empty; otherwise to the URL of the view's own default
\* view; and to the index view's default view only when the URL of the
\* view's own default view cannot be built.
C15_RedirectTarget ==
  (phase = "done" /\ Succeeded) =>
    LET next == ArgsGet(req.args, NEXT)
        self == ViewOf(req.handler)
        own  == <<self.endpoint, self.default_view>>
    IN  /\ resp.kind = "redirect"
        /\ (next # None /\ next[1] # <<>>) => resp.to = next[1]
        /\ (next = None \/ next = Some(<<>>)) =>
             /\ own \in Endpoints =>
                  resp.to = <<"url_for">> \o own[1] \o <<".", own[2]>>
             /\ own \notin Endpoints =>
                  resp.to = <<"url_for">> \o IndexName \o <<".", "index">>

\* A form post redirects to the index: the form view has no 'list'.
C15_Witness ==
  /\ Done("this_form_post") /\ Succeeded
  /\ ArgsGet(req.args, NEXT) = Some(<<>>)
  /\ resp.to = <<"url_for">> \o IndexName \o <<".", "index">>

\* The request in hand is one to a read-only handler: list, show, edit GET
\* or add GET.
ReadOnly ==
  \/ req.handler \in {"list", "show"}
  \/ req.handler \in {"add", "edit"} /\ req.method = "GET"

\* The datamodel writes and the pre_/post_ hooks.
WritesAndHooks ==
  {"datamodel.add", "datamodel.edit", "datamodel.delete", "pre_add", "post_add",
   "pre_update", "post_update", "pre_delete", "post_delete"}

\* C16: in any sequence of requests, a list request, a show request, an edit
\* GET and an add GET call no datamodel write and no pre_/post_ hook and leave
\* the stored objects as they were; the stored objects change only in the
\* handling of a validated add POST, a validated edit POST or a delete.
C16_ReadOnlyHandlers ==
  /\ [](  (phase = "done" /\ ReadOnly) =>
            /\ \A i \in 1..Len(calls) : calls[i].op \notin WritesAndHooks
            /\ records = recs0)
  /\ [][ records' # records =>
           /\ phase' = "done"
           /\ req'.handler \in {"add", "edit", "delete"}
           /\ req'.handler \in {"add", "edit"} => (req'.method = "POST" /\ req'.valid) ]_vars

C16_Witness ==
  /\ Done("show")
  /\ req.pk \in DOMAIN recs0
  /\ records = recs0
  /\ resp.kind = "render"

====
